---- MODULE Spec2Model ----
(***************************************************************************)
(* A model of the steno3d Line resource (src/steno3d/line.py): the Mesh1D  *)
(* geometry with its cross-field validator and dirty-file computation, the *)
(* bound data of a Line with its length validator, and the dirty-tracking  *)
(* and sync engine they run on.  The engine (steno3d/base.py and           *)
(* steno3d/props.py) is not part of the sources at hand; its operations    *)
(* are modelled from the specification and marked so where defined.        *)
(***************************************************************************)
EXTENDS Integers, Sequences, FiniteSets, TLC

VARIABLES vertices, segments, dirty_props, synced, data, pc, last,
          user, base_url, credentials, call

mvars == <<vertices, segments, dirty_props, synced, data, pc, last>>

cvars == <<user, base_url, credentials, call>>

vars == <<vertices, segments, dirty_props, synced, data, pc, last,
          user, base_url, credentials, call>>

----------------------------------------------------------------------------
(* Bounds of the model.                                                    *)

MaxVerts == 4
MaxSegs == 5
MaxData == 2
MaxDataLen == 3
MaxWidth == 4
MaxLines == 2

(* The per-array byte limit of the size policy (spec 4.2); the limit of    *)
(* the repository is a property of the logged-in user, read by base.py.    *)
FileSizeLimit == 36

----------------------------------------------------------------------------
(* Arrays.  A vertices array is a sequence of rows <<x, y, z>>, a segments *)
(* array a sequence of rows <<a, b>>, a data array a sequence of numbers.  *)

Verts(n, s) == [k \in 1..n |-> <<k - 1 + s, 0, 0>>]

Segs(n, a, b) == [k \in 1..n |-> IF k = n THEN <<a, b>> ELSE <<0, 1>>]

DataArr(n) == [k \in 1..n |-> 0]

Idx == -1..MaxVerts

VertexArrays == {Verts(n, s) : n \in 0..MaxVerts, s \in 0..1}

SegmentArrays == {Segs(n, a, b) : n \in 0..MaxSegs, a \in Idx, b \in Idx}

Locations == {"CC", "N"}

(* Values an assignment can be given: arrays of every row width, of the    *)
(* declared element kind or another, and location tags.                    *)
Rows(n, w) == [k \in 1..n |-> [j \in 1..w |-> 0]]

ShapeInputs == {Rows(2, w) : w \in 1..MaxWidth}

VertexDtypes == {"float", "str"}

SegmentDtypes == {"int", "float"}

LocationInputs ==
    {"CC", "N", "LINE", "SEGMENT", "VERTEX", "ENDPOINT", "CENTER", ""}

VertexInputs == {Verts(3, s) : s \in 0..1} \cup {Verts(n, 0) : n \in 4..MaxVerts}

SegmentInputs ==
    {<< >>, Segs(2, -1, 2), Segs(MaxSegs, 0, 1)}
        \cup {Segs(2, 1, b) : b \in 2..(MaxVerts - 1)}

DataInputs == {DataArr(2), DataArr(3)}

RECURSIVE SeqsUpTo(_, _)
SeqsUpTo(S, n) ==
    IF n = 0 THEN {<< >>}
    ELSE LET shorter == SeqsUpTo(S, n - 1)
         IN  shorter \cup {Append(q, x) : q \in {r \in shorter : Len(r) = n - 1}, x \in S}

----------------------------------------------------------------------------
(* Mesh1D: counts and sizes.                                               *)

nN(v) == Len(v)

nC(s) == Len(s)

NumElems(arr) == IF Len(arr) = 0 THEN 0 ELSE Len(arr) * Len(arr[1])

(* arr.astype('f4').nbytes: four bytes per element.                        *)
nbytes(arr) == 4 * NumElems(arr)

(* Mesh1D._nbytes(): the segments and the vertices.                        *)
mesh_nbytes(v, s) == nbytes(s) + nbytes(v)

(* The encoded size of a bound data array: four bytes per value.           *)
data_nbytes(arr) == 4 * Len(arr)

RECURSIVE sum_data_nbytes(_, _)
sum_data_nbytes(d, i) ==
    IF i > Len(d) THEN 0 ELSE data_nbytes(d[i].array) + sum_data_nbytes(d, i + 1)

(* A size of the resource that leaves the bound data out.                  *)
line_nbytes_mesh_only(v, s, d) == mesh_nbytes(v, s)

(* Line._nbytes(): the mesh and every bound data array.                    *)
line_nbytes(v, s, d) == mesh_nbytes(v, s) + sum_data_nbytes(d, 1)

Elements(arr) == {arr[k][j] : k \in DOMAIN arr, j \in 1..2}

npmin(S) == CHOOSE x \in S : \A y \in S : x <= y

npmax(S) == CHOOSE x \in S : \A y \in S : x >= y

----------------------------------------------------------------------------
(* Errors.  Every validator raises ValueError; kind tells the cases apart. *)

NoError == [kind |-> "none", name |-> "", index |-> 0, datalen |-> 0,
            loc |-> "", meshlen |-> 0]

MeshError(kind, name) == [NoError EXCEPT !.kind = kind, !.name = name]

DataError(ii, datalen, loc, meshlen) ==
    [kind |-> "DataLengthMismatch", name |-> "data", index |-> ii,
     datalen |-> datalen, loc |-> loc, meshlen |-> meshlen]

(* base.py _validate_file_size(name, arr): the encoded size of one array   *)
(* against the limit.                                                      *)
validate_file_size(name, arr) ==
    IF nbytes(arr) > FileSizeLimit
    THEN MeshError("PayloadTooLarge", name)
    ELSE NoError

(* _validate_seg without its size check of vertices.                       *)
validate_seg_segments_only(v, s) ==
    IF {arr \in {s} : Len(arr) > 0} = {} THEN MeshError("ZeroSizeReduction", "segments")
    ELSE IF \E k \in DOMAIN s : s[k][1] < 0 \/ s[k][2] < 0
         THEN MeshError("NegativeIndex", "segments")
    ELSE IF \E k \in DOMAIN s : s[k][1] >= Len(v) \/ s[k][2] >= Len(v)
         THEN MeshError("IndexOutOfRange", "segments")
    ELSE validate_file_size("segments", s)

(* Mesh1D._validate_seg: the error it raises on vertices v and segments s, *)
(* NoError when it returns True.  numpy's min and max raise ValueError on  *)
(* an array without elements.                                              *)
validate_seg(v, s) ==
    IF Elements(s) = {} THEN MeshError("ZeroSizeReduction", "segments")
    ELSE IF npmin(Elements(s)) < 0 THEN MeshError("NegativeIndex", "segments")
    ELSE IF npmax(Elements(s)) >= Len(v) THEN MeshError("IndexOutOfRange", "segments")
    ELSE IF validate_file_size("segments", s) # NoError
         THEN validate_file_size("segments", s)
    ELSE validate_file_size("vertices", v)

(* valid_length with the two counts exchanged.                             *)
valid_length_swapped(v, s, loc) == IF loc = "CC" THEN nN(v) ELSE nC(s)

(* The length _validate_data expects of a data array at location loc.      *)
valid_length(v, s, loc) == IF loc = "CC" THEN nC(s) ELSE nN(v)

(* Line._validate_data, entry by entry from position i (1-based; the code's *)
(* index ii is i - 1): the error it raises and the number of entries the   *)
(* loop has examined when it stops.                                        *)
RECURSIVE validate_data_from(_, _, _, _)
validate_data_from(v, s, d, i) ==
    IF i > Len(d) THEN [err |-> NoError, examined |-> Len(d)]
    ELSE LET meshlen == valid_length(v, s, d[i].location)
         IN  IF Len(d[i].array) # meshlen
             THEN [err |-> DataError(i - 1, Len(d[i].array), d[i].location, meshlen),
                   examined |-> i]
             ELSE validate_data_from(v, s, d, i + 1)

validate_data(v, s, d) == validate_data_from(v, s, d, 1)

(* Line.validate(): the owned mesh validates first, then the Line's own    *)
(* validator runs.                                                         *)
line_validate(v, s, d) ==
    IF validate_seg(v, s) # NoError
    THEN [err |-> validate_seg(v, s), examined |-> 0]
    ELSE validate_data(v, s, d)

----------------------------------------------------------------------------
(* Encoding and the dirty-file set.                                        *)

(* array_serializer: the elements of the array in row-major order, each    *)
(* standing for its four-byte little-endian word.                          *)
RECURSIVE serialize(_)
serialize(arr) ==
    IF Len(arr) = 0 THEN << >> ELSE arr[1] \o serialize(Tail(arr))

(* _get_dirty_files with the second test an elif: one key at most.         *)
get_dirty_files_elif(dirty, v, s, force) ==
    LET keys == IF "vertices" \in dirty \/ force THEN {"vertices"}
                ELSE {k \in {"segments"} : k \in dirty \/ force}
    IN  [k \in keys |-> IF k = "vertices" THEN serialize(v) ELSE serialize(s)]

(* _get_dirty_files ignoring its force argument.                           *)
get_dirty_files_unforced(dirty, v, s, force) ==
    LET keys == {k \in {"vertices", "segments"} : k \in dirty}
    IN  [k \in keys |-> IF k = "vertices" THEN serialize(v) ELSE serialize(s)]

(* Mesh1D._get_dirty_files(force): the mapping it returns.                 *)
get_dirty_files(dirty, v, s, force) ==
    LET keys == {k \in {"vertices"} : k \in dirty \/ force}
                \cup {k \in {"segments"} : k \in dirty \/ force}
    IN  [k \in keys |-> IF k = "vertices" THEN serialize(v) ELSE serialize(s)]

----------------------------------------------------------------------------
(* Dirty tracking (spec 4.1).  A synced value is << >> before the first    *)
(* sync and <<value>> after it.                                            *)

NeverSynced == << >>

(* TypedField.set: whether the field is dirty after storing value.         *)
dirty_after_set(was_dirty, value, last_synced) ==
    was_dirty \/ last_synced # <<value>>

Binder(location, array) ==
    [location |-> location, array |-> array, dirty |-> TRUE, synced |-> NeverSynced,
     synced_location |-> NeverSynced]

(* properties.Array.validate: the element kind, then the width of the rows *)
(* of the value, against the declaration of the field; "" when it passes.  *)
array_error_none(dtype, rows, kinds, width) == ""

array_error(dtype, rows, kinds, width) ==
    IF dtype \notin kinds THEN "KindMismatch"
    ELSE IF \E k \in DOMAIN rows : Len(rows[k]) # width THEN "ShapeMismatch"
    ELSE ""

(* properties.StringChoice.validate on _LineBinder.location: the tag of a  *)
(* choice or of one of its aliases; "" when the value is none of them.     *)
location_choice(tag) ==
    IF tag \in {"CC", "LINE", "FACE", "CELLCENTER", "EDGE", "SEGMENT"} THEN "CC"
    ELSE IF tag \in {"N", "VERTEX", "NODE", "ENDPOINT"} THEN "N"
    ELSE ""

(* What a call leaves in last: the call, the error it raised, the files it *)
(* returned, the entries its loop examined, whether the latest validation  *)
(* of the resource failed, and whether the call repeats the call before it *)
(* (_get_dirty_files with the same force), the size _nbytes returned, and  *)
(* the value an assignment was given.                                      *)
Constructed == [op |-> "construct", err |-> NoError, files |-> << >>, force |-> FALSE,
                examined |-> 0, failed |-> FALSE, again |-> FALSE, size |-> 0,
                arg |-> << >>]

Result(op) == [Constructed EXCEPT !.op = op, !.failed = last.failed]

Files(force) ==
    [Result("get_dirty_files") EXCEPT
        !.files = get_dirty_files(dirty_props, vertices, segments, force),
        !.force = force,
        !.again = (last.op = "get_dirty_files" /\ last.force = force)]

Validated(op, r) ==
    [Result(op) EXCEPT !.err = r.err, !.examined = r.examined, !.failed = r.err # NoError]

----------------------------------------------------------------------------
(* The client (client.py).  A string is the sequence of the parts that     *)
(* '//' separates in it, each part its text and its length; None is the    *)
(* empty sequence.                                                         *)

KeyIdLen == 36

Part(text, len) == [text |-> text, len |-> len]

None == << >>

NameStr(name) == <<Part(name, 5)>>

KeyStr(name, id, len) == <<Part(name, 5), Part(id, len)>>

Usernames == {"alice", "bob"}

ShortKey == KeyStr("alice", "k1", KeyIdLen - 1)

LongKey == <<Part("alice", 5), Part("k1", KeyIdLen), Part("k2", KeyIdLen)>>

(* _Comms.is_key accepting a second part of any length.                    *)
is_key_any_length(devel_key) ==
    devel_key # None /\ Len(devel_key) = 2

(* _Comms.is_key: a string of two parts, the second of 36 characters.      *)
is_key(devel_key) ==
    devel_key # None /\ Len(devel_key) = 2 /\ devel_key[2].len = KeyIdLen

(* dk.split('//')[0].                                                      *)
username_of(devel_key) == <<devel_key[1]>>

(* Hostnames, character by character.                                      *)
Steno3dCom == <<"s", "t", "e", "n", "o", "3", "d", ".", "c", "o", "m">>

DevSteno3dCom == <<"d", "e", "v", ".">> \o Steno3dCom

Localhost == <<"l", "o", "c", "a", "l", "h", "o", "s", "t">>

WwwCompanyOrg ==
    <<"w", "w", "w", ".", "c", "o", "m", "p", "a", "n", "y", ".", "o", "r", "g">>

(* A URL: its scheme, the characters of its hostname, and whether it ends  *)
(* with '/'.                                                               *)
Url(scheme, hostname, slash) == [scheme |-> scheme, hostname |-> hostname, slash |-> slash]

PRODUCTION_BASE_URL == Url("https", Steno3dCom, TRUE)

(* '.com' in parsed.hostname: the four characters anywhere in it.          *)
HasDotCom(hostname) ==
    \E i \in 1..(Len(hostname) - 3) : SubSeq(hostname, i, i + 3) = <<".", "c", "o", "m">>

(* A setter of base_url that takes any scheme.                             *)
base_url_setter_any_scheme(value) ==
    [raised |-> FALSE, url |-> [value EXCEPT !.slash = TRUE]]

(* The setter of base_url: the value with '/' patched on, or the error of  *)
(* a '.com' host without https.                                            *)
base_url_setter(value) ==
    LET patched == [value EXCEPT !.slash = TRUE]
    IN  IF HasDotCom(patched.hostname) /\ patched.scheme # "https"
        THEN [raised |-> TRUE, url |-> value]
        ELSE [raised |-> FALSE, url |-> patched]

(* User (user.py): nobody logged in, and the user a login response and its *)
(* key make.                                                               *)
NoUser == [logged_in |-> FALSE, username |-> None, devel_key |-> None]

login_with_json(uid) == [logged_in |-> TRUE, username |-> NameStr(uid), devel_key |-> None]

set_key(u, devel_key) == [u EXCEPT !.devel_key = devel_key]

(* The gate of needs_login left open.                                      *)
needs_login_open(u) == TRUE

(* needs_login: whether the wrapped function is called.                    *)
needs_login(u) == u.logged_in

(* The credentials file: whether it is a file, and its lines, stripped.    *)
NoFile == [isfile |-> FALSE, lines |-> << >>]

CredFile(lines) == [isfile |-> TRUE, lines |-> lines]

(* The valid keys of the file, in order (login, lines 228-238).            *)
stored_keys(file) == IF file.isfile THEN SelectSeq(file.lines, is_key) ELSE << >>

(* The key login passes to _login_with: the stored key of the username     *)
(* devel_key names, the first stored key when devel_key is None, else      *)
(* devel_key (login, lines 240-247).                                       *)
key_from_file(devel_key, keys) ==
    LET named == {i \in DOMAIN keys : username_of(keys[i]) = devel_key}
    IN  IF named # {} THEN keys[CHOOSE i \in named : \A j \in named : i <= j]
        ELSE IF devel_key = None /\ Len(keys) > 0 THEN keys[1]
        ELSE devel_key

(* The lines of a login that drops only the key it writes first.           *)
updated_devel_keys_same_user(u, keys) ==
    LET kept(key) == key # u.devel_key
    IN  <<u.devel_key>> \o SelectSeq(keys, kept)

(* The lines login writes: the key of the user, then the stored keys that  *)
(* are not that key and not of that username (login, lines 252-260).       *)
updated_devel_keys(u, keys) ==
    LET kept(key) == ~(key = u.devel_key \/ username_of(key) = u.username)
    IN  <<u.devel_key>> \o SelectSeq(keys, kept)

(* What a call of the client leaves in call: the call, the requests it     *)
(* sent (method, base URL, path and key), whether it raised, whether it    *)
(* returned a response, the endpoint it was given, the key _login_with     *)
(* checked, the status of its GET, the base URL before the call, the files *)
(* a gated call was given and whether it closed them, and the valid keys   *)
(* a login read from the credentials file.                                 *)
NoUrl == Url("", << >>, FALSE)

NoCall == [op |-> "none", requests |-> << >>, raised |-> FALSE, returned |-> FALSE,
           endpoint |-> NoUrl, key |-> None, status |-> "none",
           skip_credentials |-> FALSE, before |-> NoUrl,
           files |-> "none", closed |-> FALSE, stored |-> << >>]

Called(op) == [NoCall EXCEPT !.op = op, !.before = base_url]

Request(method, base, path, key) ==
    [method |-> method, base |-> base, path |-> path, key |-> key]

(* Comms = _Comms(): nobody logged in, the production URL, and no          *)
(* credentials file read.                                                  *)
CommsConstructed ==
    /\ user = NoUser
    /\ base_url = PRODUCTION_BASE_URL
    /\ credentials = NoFile
    /\ call = NoCall

----------------------------------------------------------------------------
(* The state.  vertices, segments and dirty_props are the fields of the    *)
(* Mesh1D of one Line, synced the values of its arrays at the last sync,   *)
(* data the Line's bound data, pc whether an upload is in flight, last the *)
(* latest call and what it returned or raised.                             *)

WithinLimit(arr) == validate_file_size("array", arr) = NoError

Binders == {Binder(l, a) : l \in Locations, a \in DataInputs}

(* Line(mesh=Mesh1D(vertices=v, segments=s), data=[...]): every field set  *)
(* once, none synced.  The constructor raises on an array over the limit.  *)
Init ==
    /\ vertices \in {v \in VertexInputs : WithinLimit(v)}
    /\ segments \in {s \in SegmentInputs : WithinLimit(s)}
    /\ data \in SeqsUpTo(Binders, MaxData)
    /\ dirty_props = {"vertices", "segments"}
    /\ synced = [vertices |-> NeverSynced, segments |-> NeverSynced]
    /\ pc = "idle"
    /\ last = Constructed
    /\ CommsConstructed

(* An assignment of the vertices that marks them dirty whatever the value. *)
SetVertices_marking(v) ==
    /\ pc = "idle"
    /\ vertices' = v
    /\ dirty_props' = dirty_props \cup {"vertices"}
    /\ last' = [Result("set_vertices") EXCEPT
                   !.err = validate_file_size("vertices", v),
                   !.arg = [dtype |-> "float", rows |-> v]]
    /\ UNCHANGED <<segments, synced, data, pc>>
    /\ UNCHANGED cvars

(* mesh.vertices = an array of kind dtype with rows v: a value that is not *)
(* of the declared kind and shape is rejected and nothing stored; else the *)
(* value is stored, the field marked dirty, and the observer               *)
(* _reject_large_files raises when v is over the limit.                    *)
AssignVertices(dtype, v) ==
    /\ pc = "idle"
    /\ LET e == array_error(dtype, v, {"float"}, 3)
           r == [Result("set_vertices") EXCEPT !.arg = [dtype |-> dtype, rows |-> v]]
       IN  IF e # ""
           THEN /\ last' = [r EXCEPT !.err = MeshError(e, "vertices")]
                /\ UNCHANGED <<vertices, dirty_props>>
           ELSE /\ vertices' = v
                /\ dirty_props' =
                       IF dirty_after_set("vertices" \in dirty_props, v, synced.vertices)
                       THEN dirty_props \cup {"vertices"} ELSE dirty_props
                /\ last' = [r EXCEPT !.err = validate_file_size("vertices", v)]
    /\ UNCHANGED <<segments, synced, data, pc>>
    /\ UNCHANGED cvars

(* mesh.vertices = v, v an array of floats.                                *)
SetVertices(v) == AssignVertices("float", v)

(* mesh.segments = an array of kind dtype with rows s.                     *)
AssignSegments(dtype, s) ==
    /\ pc = "idle"
    /\ LET e == array_error(dtype, s, {"int"}, 2)
           r == [Result("set_segments") EXCEPT !.arg = [dtype |-> dtype, rows |-> s]]
       IN  IF e # ""
           THEN /\ last' = [r EXCEPT !.err = MeshError(e, "segments")]
                /\ UNCHANGED <<segments, dirty_props>>
           ELSE /\ segments' = s
                /\ dirty_props' =
                       IF dirty_after_set("segments" \in dirty_props, s, synced.segments)
                       THEN dirty_props \cup {"segments"} ELSE dirty_props
                /\ last' = [r EXCEPT !.err = validate_file_size("segments", s)]
    /\ UNCHANGED <<vertices, synced, data, pc>>
    /\ UNCHANGED cvars

(* mesh.segments = s, s an array of integers.                              *)
SetSegments(s) == AssignSegments("int", s)

(* line.data[i].location = tag: an alias is stored as the tag of its       *)
(* choice, any other string is rejected.                                   *)
SetLocation(i, tag) ==
    /\ pc = "idle"
    /\ i \in DOMAIN data
    /\ LET c == location_choice(tag)
           r == [Result("set_location") EXCEPT !.arg = [index |-> i, tag |-> tag]]
       IN  IF c = ""
           THEN /\ last' = [r EXCEPT !.err = MeshError("KindMismatch", "location")]
                /\ UNCHANGED data
           ELSE /\ data' = [data EXCEPT
                               ![i].location = c,
                               ![i].dirty = dirty_after_set(data[i].dirty, c,
                                                            data[i].synced_location)]
                /\ last' = r
    /\ UNCHANGED <<vertices, segments, dirty_props, synced, pc>>
    /\ UNCHANGED cvars

(* line.data[i].data.array = a.                                            *)
SetDataArray(i, a) ==
    /\ pc = "idle"
    /\ i \in DOMAIN data
    /\ data' = [data EXCEPT ![i].array = a,
                            ![i].dirty = dirty_after_set(data[i].dirty, a, data[i].synced)]
    /\ last' = Result("set_data")
    /\ UNCHANGED <<vertices, segments, dirty_props, synced, pc>>
    /\ UNCHANGED cvars

(* A validation that marks the mesh clean once it has passed.              *)
ValidateMesh_cleaning ==
    /\ pc = "idle"
    /\ last' = Validated("validate_mesh", [err |-> validate_seg(vertices, segments), examined |-> 0])
    /\ dirty_props' = IF validate_seg(vertices, segments) = NoError THEN {} ELSE dirty_props
    /\ UNCHANGED <<vertices, segments, synced, data, pc>>
    /\ UNCHANGED cvars

(* mesh.validate(): the validator _validate_seg on the current arrays.     *)
ValidateMesh ==
    /\ pc = "idle"
    /\ last' = Validated("validate_mesh", [err |-> validate_seg(vertices, segments), examined |-> 0])
    /\ UNCHANGED <<vertices, segments, dirty_props, synced, data, pc>>
    /\ UNCHANGED cvars

(* line.validate().                                                        *)
ValidateLine ==
    /\ pc = "idle"
    /\ last' = Validated("validate_line", line_validate(vertices, segments, data))
    /\ UNCHANGED <<vertices, segments, dirty_props, synced, data, pc>>
    /\ UNCHANGED cvars

(* _get_dirty_files marking both arrays dirty when forced.                 *)
GetDirtyFiles_marking(force) ==
    /\ pc = "idle"
    /\ last' = Files(force)
    /\ dirty_props' = IF force THEN {"vertices", "segments"} ELSE dirty_props
    /\ UNCHANGED <<vertices, segments, synced, data, pc>>
    /\ UNCHANGED cvars

(* _get_dirty_files marking the mesh clean once its files are serialized.  *)
GetDirtyFiles_clearing(force) ==
    /\ pc = "idle"
    /\ last' = Files(force)
    /\ dirty_props' = {}
    /\ UNCHANGED <<vertices, segments, synced, data, pc>>
    /\ UNCHANGED cvars

(* mesh._get_dirty_files(force).                                           *)
GetDirtyFiles(force) ==
    /\ pc = "idle"
    /\ last' = Files(force)
    /\ UNCHANGED <<vertices, segments, dirty_props, synced, data, pc>>
    /\ UNCHANGED cvars

(* line._nbytes().                                                         *)
Nbytes ==
    /\ pc = "idle"
    /\ last' = [Result("nbytes") EXCEPT !.size = line_nbytes(vertices, segments, data)]
    /\ UNCHANGED <<vertices, segments, dirty_props, synced, data, pc>>
    /\ UNCHANGED cvars

(* mark_synced(): every owned field becomes clean and its value the synced *)
(* one.                                                                    *)
mark_synced ==
    /\ dirty_props' = {}
    /\ synced' = [vertices |-> <<vertices>>, segments |-> <<segments>>]
    /\ data' = [i \in DOMAIN data |->
                   [data[i] EXCEPT !.dirty = FALSE, !.synced = <<data[i].array>>,
                                   !.synced_location = <<data[i].location>>]]

(* An upload starts: the resource validates, and when it does its dirty    *)
(* files go to the transport layer.                                        *)
UploadBegin ==
    /\ pc = "idle"
    /\ LET r == line_validate(vertices, segments, data)
       IN  IF r.err # NoError
           THEN /\ last' = Validated("upload", r)
                /\ pc' = "idle"
           ELSE /\ last' = [Validated("upload", r) EXCEPT
                               !.files = get_dirty_files(dirty_props, vertices, segments, FALSE)]
                /\ pc' = "uploading"
    /\ UNCHANGED <<vertices, segments, dirty_props, synced, data>>
    /\ UNCHANGED cvars

(* The transport layer confirms the remote write and calls mark_synced.    *)
UploadSucceed ==
    /\ pc = "uploading"
    /\ mark_synced
    /\ pc' = "idle"
    /\ last' = Result("upload_succeed")
    /\ UNCHANGED <<vertices, segments>>
    /\ UNCHANGED cvars

(* The remote write fails.                                                 *)
UploadFail ==
    /\ pc = "uploading"
    /\ pc' = "idle"
    /\ last' = [Result("upload_fail") EXCEPT !.err = MeshError("UploadFailed", "")]
    /\ UNCHANGED <<vertices, segments, dirty_props, synced, data>>
    /\ UNCHANGED cvars

(* The caller cancels the upload in flight.                                *)
UploadCancel ==
    /\ pc = "uploading"
    /\ pc' = "idle"
    /\ last' = Result("upload_cancel")
    /\ UNCHANGED <<vertices, segments, dirty_props, synced, data>>
    /\ UNCHANGED cvars

Next ==
    \/ \E v \in VertexInputs : SetVertices(v)
    \/ \E s \in SegmentInputs : SetSegments(s)
    \/ \E i \in 1..MaxData, a \in DataInputs : SetDataArray(i, a)
    \/ ValidateMesh
    \/ ValidateLine
    \/ \E force \in BOOLEAN : GetDirtyFiles(force)
    \/ UploadBegin
    \/ UploadSucceed
    \/ UploadFail
    \/ UploadCancel

Spec == Init /\ [][Next]_vars

----------------------------------------------------------------------------
(* The validators on their own: a resource holding any arrays of the       *)
(* bounded sets (within the limit or not, with or without segments), then  *)
(* validated.  Either the mesh ranges over all arrays and there is no      *)
(* bound data, or the bound data ranges over all lengths and locations on  *)
(* a mesh of every size.                                                   *)

AllBinders == {Binder(l, DataArr(n)) : l \in Locations, n \in 0..MaxDataLen}

InitValidate ==
    /\ \/ /\ vertices \in VertexArrays
          /\ segments \in SegmentArrays
          /\ data = << >>
       \/ /\ vertices \in {Verts(n, 0) : n \in 1..MaxVerts}
          /\ segments \in {Segs(m, 0, 0) : m \in 1..MaxSegs}
          /\ data \in SeqsUpTo(AllBinders, MaxData)
    /\ dirty_props = {"vertices", "segments"}
    /\ synced = [vertices |-> NeverSynced, segments |-> NeverSynced]
    /\ pc = "idle"
    /\ last = Constructed
    /\ CommsConstructed

NextValidate ==
    \/ ValidateMesh
    \/ ValidateLine
    \/ Nbytes

SpecValidate == InitValidate /\ [][NextValidate]_vars

----------------------------------------------------------------------------
(* Assignments on their own: a constructed resource with one bound data    *)
(* array is assigned arrays of every kind and row width and locations by   *)
(* tag, alias or neither, and is validated and asked for its files in      *)
(* between.                                                                *)

InitAssign ==
    /\ vertices \in {v \in VertexInputs : WithinLimit(v)}
    /\ segments \in {s \in SegmentInputs : WithinLimit(s)}
    /\ data \in {<<b>> : b \in Binders}
    /\ dirty_props = {"vertices", "segments"}
    /\ synced = [vertices |-> NeverSynced, segments |-> NeverSynced]
    /\ pc = "idle"
    /\ last = Constructed
    /\ CommsConstructed

NextAssign ==
    \/ \E dtype \in VertexDtypes : \E v \in VertexInputs \cup ShapeInputs :
           AssignVertices(dtype, v)
    \/ \E dtype \in SegmentDtypes : \E s \in SegmentInputs \cup ShapeInputs :
           AssignSegments(dtype, s)
    \/ \E tag \in LocationInputs : SetLocation(1, tag)
    \/ ValidateLine
    \/ \E force \in BOOLEAN : GetDirtyFiles(force)

SpecAssign == InitAssign /\ [][NextAssign]_vars

----------------------------------------------------------------------------
(* The builders: no mesh at first, then a mesh built from downloaded       *)
(* arrays or from an OMF line set, validated and asked for its files.      *)

Origins == {<<0, 0, 0>>, <<1, 2, 3>>, <<-2, 0, 5>>}

OmfVertices == {Verts(n, s) : n \in 0..MaxVerts, s \in 0..1}

OmfSegments == {<< >>, Segs(1, 0, 1), Segs(2, 1, 0), Segs(2, 2, MaxVerts + 1)}

Unbuilt == [Constructed EXCEPT !.op = "none"]

NoMesh ==
    /\ vertices = << >>
    /\ segments = << >>
    /\ data = << >>
    /\ dirty_props = {}
    /\ synced = [vertices |-> NeverSynced, segments |-> NeverSynced]
    /\ pc = "unbuilt"
    /\ last = Unbuilt

InitBuild ==
    /\ NoMesh
    /\ CommsConstructed

(* Mesh1D(vertices=v, segments=s): each array is validated against its     *)
(* declaration, stored, and checked by the observer _reject_large_files.   *)
mesh_construct_error(v, s) ==
    IF array_error("float", v, {"float"}, 3) # ""
    THEN MeshError(array_error("float", v, {"float"}, 3), "vertices")
    ELSE IF validate_file_size("vertices", v) # NoError
    THEN validate_file_size("vertices", v)
    ELSE IF array_error("int", s, {"int"}, 2) # ""
    THEN MeshError(array_error("int", s, {"int"}, 2), "segments")
    ELSE validate_file_size("segments", s)

(* The mesh the constructor returns, or its error and no mesh: the builder *)
(* has raised.                                                             *)
MeshBuilt(op, arg, v, s) ==
    LET e == mesh_construct_error(v, s)
        r == [Unbuilt EXCEPT !.op = op, !.arg = arg, !.err = e]
    IN  /\ last' = r
        /\ IF e # NoError
           THEN /\ pc' = "raised"
                /\ UNCHANGED <<vertices, segments, dirty_props>>
           ELSE /\ vertices' = v
                /\ segments' = s
                /\ dirty_props' = {"vertices", "segments"}
                /\ pc' = "idle"
        /\ UNCHANGED <<synced, data>>

(* Mesh1D._build_from_json on the arrays v and s the deserializers return. *)
BuildFromJson(v, s) ==
    /\ pc = "unbuilt"
    /\ MeshBuilt("build_from_json", [vertices |-> v, segments |-> s], v, s)
    /\ UNCHANGED cvars

VecAdd(a, b) == [j \in 1..3 |-> a[j] + b[j]]

(* The vertices of an import that leaves the origin of the project out.    *)
omf_vertices_geometry_only(fv, origin, project_origin) ==
    [k \in DOMAIN fv |-> VecAdd(fv[k], origin)]

(* omf_geom.vertices.array + omf_geom.origin + omf_project.origin.         *)
omf_vertices(fv, origin, project_origin) ==
    [k \in DOMAIN fv |-> VecAdd(VecAdd(fv[k], origin), project_origin)]

(* Mesh1D._build_from_omf(omf_geom, omf_project).                          *)
BuildFromOmf(fv, origin, project_origin, fs) ==
    /\ pc = "unbuilt"
    /\ MeshBuilt("build_from_omf",
                 [vertices |-> fv, origin |-> origin, project_origin |-> project_origin,
                  segments |-> fs],
                 omf_vertices(fv, origin, project_origin), fs)
    /\ UNCHANGED cvars

NextBuild ==
    \/ \E v \in VertexArrays : \E s \in SegmentArrays : BuildFromJson(v, s)
    \/ \E fv \in OmfVertices : \E origin \in Origins : \E project_origin \in Origins :
           \E fs \in OmfSegments : BuildFromOmf(fv, origin, project_origin, fs)
    \/ ValidateMesh
    \/ \E force \in BOOLEAN : GetDirtyFiles(force)

SpecBuild == InitBuild /\ [][NextBuild]_vars

----------------------------------------------------------------------------
(* The client: logins with every kind of key, file, endpoint and answer of *)
(* the server, logouts, and uploads, on a credentials file of any lines.   *)

DevelKeyInputs ==
    {None, NameStr("alice"), ShortKey, KeyStr("alice", "k2", KeyIdLen),
     KeyStr("bob", "k1", KeyIdLen)}

TypedInputs == {KeyStr("bob", "k1", KeyIdLen), LongKey}

FileLines == {KeyStr("alice", "k1", KeyIdLen), KeyStr("bob", "k2", KeyIdLen), ShortKey}

EndpointInputs ==
    {NoUrl, Url("http", Localhost, FALSE), Url("http", Steno3dCom, TRUE)}

BaseUrlInputs ==
    (EndpointInputs \ {NoUrl})
        \cup {Url("https", DevSteno3dCom, FALSE), Url("http", WwwCompanyOrg, FALSE)}

(* What GET 'me' meets: the server accepts the key and answers an account, *)
(* of the username in the key or of another, or refuses the key, or cannot *)
(* be reached.                                                             *)
Responses ==
    {[status |-> "200", uid |-> u] : u \in Usernames}
        \cup {[status |-> s, uid |-> ""] : s \in {"401", "ConnectionError"}}

(* resp.json(), passed to login_with_json as received.                     *)
resp_json(resp) == resp.uid

(* The calls of login and what their requests and their prompt meet: the   *)
(* answers a call never gets to are left at one value.                     *)
NotReached(a) ==
    /\ a.typed = LongKey
    /\ a.response = [status |-> "401", uid |-> ""]

LoginCalls ==
    {a \in [devel_key : DevelKeyInputs, credentials_file : {"file", "nodir"},
            skip_credentials : BOOLEAN, endpoint : EndpointInputs,
            version : {"200", "ConnectionError"}, typed : TypedInputs,
            response : Responses] :
        /\ a.skip_credentials => a.credentials_file = "file"
        /\ a.devel_key # None => a.typed = LongKey
        /\ a.endpoint # NoUrl /\ base_url_setter(a.endpoint).raised =>
               a.version = "200" /\ NotReached(a)
        /\ a.version = "ConnectionError" \/ a.credentials_file = "nodir" => NotReached(a)}

InitClient ==
    /\ NoMesh
    /\ user = NoUser
    /\ base_url = PRODUCTION_BASE_URL
    /\ credentials \in {NoFile} \cup {CredFile(l) : l \in SeqsUpTo(FileLines, MaxLines)}
    /\ call = NoCall

(* _login_with(devel_key) on the base URL url: the user, the base URL, the *)
(* request and the key it ends with.                                       *)
login_with(devel_key, url, a) ==
    LET key == IF devel_key = None THEN a.typed ELSE devel_key
        get == Request("GET", url, "me", key)
        out == [user |-> user, base_url |-> url, requests |-> << >>, key |-> key,
                status |-> "none"]
    IN  IF ~is_key(key) THEN out
        ELSE IF a.response.status = "ConnectionError"
        THEN [out EXCEPT !.requests = <<get>>, !.status = "ConnectionError"]
        ELSE IF a.response.status # "200"
        THEN [out EXCEPT !.requests = <<get>>, !.status = a.response.status,
                         !.base_url = PRODUCTION_BASE_URL, !.user = NoUser]
        ELSE [out EXCEPT !.requests = <<get>>, !.status = "200",
                         !.user = set_key(login_with_json(resp_json(a.response)), key)]

(* login past its first check: the endpoint, the version request, the      *)
(* credentials file, _login_with, and the file rewritten after a success.  *)
LoginAttempt(a) ==
    LET set == IF a.endpoint = NoUrl THEN [raised |-> FALSE, url |-> base_url]
               ELSE base_url_setter(a.endpoint)
        version == Request("POST", set.url, "client/steno3dpy", None)
        c == [Called("login") EXCEPT !.endpoint = a.endpoint,
                            !.skip_credentials = a.skip_credentials]
        keys == stored_keys(credentials)
        out == login_with(IF a.skip_credentials THEN a.devel_key
                          ELSE key_from_file(a.devel_key, keys), set.url, a)
    IN  IF set.raised
        THEN /\ call' = [c EXCEPT !.raised = TRUE]
             /\ UNCHANGED <<user, base_url, credentials>>
        ELSE IF a.version = "ConnectionError"
                  \/ (~a.skip_credentials /\ a.credentials_file # "file")
        THEN /\ call' = [c EXCEPT !.raised = TRUE, !.requests = <<version>>]
             /\ base_url' = set.url
             /\ UNCHANGED <<user, credentials>>
        ELSE /\ call' = [c EXCEPT !.requests = <<version>> \o out.requests,
                                  !.key = out.key, !.status = out.status,
                                  !.stored = IF a.skip_credentials THEN << >> ELSE keys]
             /\ user' = out.user
             /\ base_url' = out.base_url
             /\ credentials' =
                    IF ~a.skip_credentials /\ out.user.logged_in
                    THEN CredFile(updated_devel_keys(out.user, keys))
                    ELSE credentials

(* A login that does not look at who is logged in.                         *)
Login_again(a) ==
    /\ LoginAttempt(a)
    /\ UNCHANGED mvars

(* Comms.login(devel_key, credentials_file, skip_credentials, endpoint).   *)
Login(a) ==
    /\ IF user.logged_in
       THEN /\ call' = [Called("login") EXCEPT !.endpoint = a.endpoint,
                                      !.skip_credentials = a.skip_credentials]
            /\ UNCHANGED <<user, base_url, credentials>>
       ELSE LoginAttempt(a)
    /\ UNCHANGED mvars

(* A logout that leaves the base URL as it is.                             *)
Logout_keeping_url ==
    /\ user' = NoUser
    /\ call' = Called("logout")
    /\ UNCHANGED <<base_url, credentials>>
    /\ UNCHANGED mvars

(* Comms.logout().                                                         *)
Logout ==
    /\ base_url' = PRODUCTION_BASE_URL
    /\ user' = NoUser
    /\ call' = Called("logout")
    /\ UNCHANGED credentials
    /\ UNCHANGED mvars

(* Comms.base_url = value.                                                 *)
SetBaseUrl(value) ==
    /\ LET set == base_url_setter(value)
       IN  /\ base_url' = IF set.raised THEN base_url ELSE set.url
           /\ call' = [Called("set_base_url") EXCEPT !.endpoint = value,
                                     !.raised = set.raised]
    /\ UNCHANGED <<user, credentials>>
    /\ UNCHANGED mvars

(* The files argument of a gated call, by what its file object has: no     *)
(* files at all; an object with dtype and .file; one with dtype and no     *)
(* .file; one with .file and no dtype; one with neither (a bare stream).   *)
FilesInputs == {"none", "serialized", "array", "wrapped", "stream"}

(* hasattr(files[filename], 'dtype') and hasattr(files[filename], 'file'). *)
has_dtype(files) == files \in {"serialized", "array"}

has_file(files) == files \in {"serialized", "wrapped"}

(* What request_fcn does: it returns a response, whatever its status, or   *)
(* raises requests.ConnectionError.                                        *)
Answers == {"response", "ConnectionError"}

(* The calls explored: every kind of files with a server that answers, and *)
(* a refused connection with no files.                                     *)
GateInputs ==
    {g \in FilesInputs \X Answers : g[2] = "response" \/ g[1] = "none"}

(* upload(request_fcn, url, data, files) behind needs_login, as post and   *)
(* put reach it behind their own.  Nothing is caught: filedict reads .file *)
(* of an object that has dtype before the request, the request's error     *)
(* passes through, and .file of every file is closed after the response.   *)
Gated(op, method, path, files, answer) ==
    LET called == needs_login(user)
        no_file_attr == files # "none" /\ has_dtype(files) /\ ~has_file(files)
        sent == called /\ ~no_file_attr
        answered == sent /\ answer = "response"
        close_raises == answered /\ files # "none" /\ ~has_file(files)
        raised == called /\ (no_file_attr \/ (sent /\ ~answered) \/ close_raises)
    IN  /\ call' = [Called(op) EXCEPT
                       !.files = files,
                       !.requests = IF sent
                                    THEN <<Request(method, base_url, path, user.devel_key)>>
                                    ELSE << >>,
                       !.raised = raised,
                       !.closed = answered /\ has_file(files),
                       !.returned = called /\ ~raised]
        /\ UNCHANGED <<user, base_url, credentials>>

(* post(url, data, files).                                                 *)
Post(path, files, answer) ==
    /\ Gated("post", "POST", path, files, answer)
    /\ UNCHANGED mvars

(* put(url, data, files).                                                  *)
Put(path, files, answer) ==
    /\ Gated("put", "PUT", path, files, answer)
    /\ UNCHANGED mvars

(* upload(request_fcn, url, data, files).                                  *)
Upload(method, path, files, answer) ==
    /\ Gated("upload", method, path, files, answer)
    /\ UNCHANGED mvars

Paths == {"resource/line"}

NextClient ==
    \/ \E a \in LoginCalls : Login(a)
    \/ Logout
    \/ \E value \in BaseUrlInputs : SetBaseUrl(value)
    \/ \E path \in Paths, g \in GateInputs : Post(path, g[1], g[2])
    \/ \E path \in Paths, g \in GateInputs : Put(path, g[1], g[2])
    \/ \E method \in {"POST", "PUT"}, path \in Paths, g \in GateInputs :
           Upload(method, path, g[1], g[2])

SpecClient == InitClient /\ [][NextClient]_vars

----------------------------------------------------------------------------
(* Properties.                                                             *)

(* The keys dirty_file_set() returns in the current state.                 *)
DirtyKeys == DOMAIN get_dirty_files(dirty_props, vertices, segments, FALSE)

MeshKeys == {"vertices", "segments"}

Mutations == {"set_vertices", "set_segments", "set_data"}

(* C1, as amended: right after construction dirty_file_set() holds both    *)
(* arrays; after mark_synced, and for as long as nothing is assigned, it   *)
(* is empty; assigning one array a value that differs in content from the  *)
(* synced one then makes it hold exactly that array's key.                 *)
C1_Amended ==
    /\ last.op = "construct" => DirtyKeys = MeshKeys
    /\ last'.op = "upload_succeed" => DirtyKeys' = {}
    /\ DirtyKeys = {} /\ last'.op \notin Mutations => DirtyKeys' = {}
    /\ DirtyKeys = {} /\ last'.op = "set_vertices" /\ <<vertices'>> # synced.vertices
           => DirtyKeys' = {"vertices"}
    /\ DirtyKeys = {} /\ last'.op = "set_segments" /\ <<segments'>> # synced.segments
           => DirtyKeys' = {"segments"}
    /\ last'.op = "get_dirty_files" /\ ~last'.force => DOMAIN last'.files = DirtyKeys

C1_DirtyLifecycle == [][C1_Amended]_vars

(* C1 as stated: any assignment of one array after mark_synced makes       *)
(* dirty_file_set() hold exactly that array's key.                         *)
C1_Stated ==
    /\ last.op = "construct" => DirtyKeys = MeshKeys
    /\ last'.op = "upload_succeed" => DirtyKeys' = {}
    /\ DirtyKeys = {} /\ last'.op = "set_vertices" => DirtyKeys' = {"vertices"}
    /\ DirtyKeys = {} /\ last'.op = "set_segments" => DirtyKeys' = {"segments"}

C1_AsStated == [][C1_Stated]_vars

C1_Witness ==
    /\ last.op = "set_segments"
    /\ synced.segments # NeverSynced
    /\ DirtyKeys = {"segments"}

(* C2: no step other than the success of an upload clears a dirty flag, of *)
(* the mesh or of a bound data array; mutations only add keys to what      *)
(* dirty_file_set() returns, and validations, dirty_file_set calls, failed *)
(* and cancelled uploads leave its keys as they were.                      *)
C2_Step ==
    /\ last'.op # "upload_succeed" =>
           /\ dirty_props \subseteq dirty_props'
           /\ DirtyKeys \subseteq DirtyKeys'
           /\ DOMAIN data' = DOMAIN data
           /\ \A i \in DOMAIN data : data[i].dirty => data'[i].dirty
    /\ last'.op \notin Mutations \cup {"upload_succeed"} => DirtyKeys' = DirtyKeys
    /\ last'.op = "upload_succeed" => pc = "uploading" /\ last.op = "upload"

C2_ClearedOnlyBySync == [][C2_Step]_vars

C2_Witness ==
    /\ last.op \in {"upload_fail", "upload_cancel"}
    /\ DirtyKeys = MeshKeys
    /\ \E i \in DOMAIN data : data[i].dirty

(* C3: a step that clears one dirty flag of the resource clears them all:  *)
(* after it neither array of the mesh nor any bound data array is dirty.   *)
FlagCleared ==
    \/ dirty_props' # dirty_props /\ ~(dirty_props \subseteq dirty_props')
    \/ \E i \in DOMAIN data : data[i].dirty /\ (i \notin DOMAIN data' \/ ~data'[i].dirty)

AllClean == dirty_props = {} /\ \A i \in DOMAIN data : ~data[i].dirty

C3_AllOrNothing == [][FlagCleared => AllClean']_vars

C3_Witness ==
    /\ last.op = "upload_succeed"
    /\ Len(data) >= 2
    /\ AllClean

(* C10: dirty_file_set(force) holds the key of an array exactly when the   *)
(* array is dirty or force is true.                                        *)
C10_ForceOrDirty ==
    last.op = "get_dirty_files" =>
        \A k \in MeshKeys : k \in DOMAIN last.files <=> (k \in dirty_props \/ last.force)

C10_Witness ==
    /\ last.op = "get_dirty_files"
    /\ last.force
    /\ dirty_props = {}
    /\ DOMAIN last.files = MeshKeys

(* The invariants the specification states of a resource: every index of  *)
(* segments is in 0..nN-1, both arrays are within the size limit, every    *)
(* bound data array has the length of its location.                        *)
IndicesInRange(v, s) == \A k \in DOMAIN s : \A j \in 1..2 : 0 <= s[k][j] /\ s[k][j] < nN(v)

MeshConforms == IndicesInRange(vertices, segments) /\ WithinLimit(vertices) /\ WithinLimit(segments)

LengthMatches(i) ==
    Len(data[i].array) = (IF data[i].location = "CC" THEN Len(segments) ELSE Len(vertices))

LineConforms == MeshConforms /\ \A i \in DOMAIN data : LengthMatches(i)

(* C4: a mesh whose arrays are within the size limit validates exactly     *)
(* when every segment index is in 0..nN-1.                                 *)
C4_BoundsIff ==
    last.op = "validate_mesh" /\ WithinLimit(vertices) /\ WithinLimit(segments) =>
        (last.err = NoError <=> IndicesInRange(vertices, segments))

(* C5: once the mesh of the Line has validated, the validation of the Line *)
(* succeeds exactly when every bound data array has the cell count for     *)
(* location CC and the node count for location N; the error it raises      *)
(* names an entry that does not, by its index in the code's numbering,     *)
(* with the length of its array, its location and the length expected.     *)
C5_DataLength ==
    last.op = "validate_line" /\ validate_seg(vertices, segments) = NoError =>
        /\ last.err = NoError <=> \A i \in DOMAIN data : LengthMatches(i)
        /\ last.err # NoError =>
               /\ last.err.kind = "DataLengthMismatch"
               /\ last.err.index + 1 \in DOMAIN data
               /\ ~LengthMatches(last.err.index + 1)
               /\ last.err.datalen = Len(data[last.err.index + 1].array)
               /\ last.err.loc = data[last.err.index + 1].location
               /\ last.err.meshlen =
                      (IF last.err.loc = "CC" THEN Len(segments) ELSE Len(vertices))

C5_Witness ==
    /\ last.op = "validate_line"
    /\ Len(vertices) = 3 /\ Len(segments) = 2
    /\ last.err.kind = "DataLengthMismatch"
    /\ last.err.loc = "CC" /\ last.err.meshlen = 2 /\ last.err.datalen = 3

(* C6: a failing validation of the bound data has examined every entry.    *)
C6_ExaminesAll ==
    last.op = "validate_line" /\ last.err.kind = "DataLengthMismatch" =>
        last.examined = Len(data)

ConnectivityKinds == {"ZeroSizeReduction", "NegativeIndex", "IndexOutOfRange"}

ArrayNamed(name) == IF name = "vertices" THEN vertices ELSE segments

(* C7: a validation of the mesh never passes an array over the limit; the  *)
(* PayloadTooLarge it raises names an array that is over the limit; and    *)
(* once the connectivity checks have passed it raises PayloadTooLarge for  *)
(* segments over the limit, for vertices over the limit when segments are  *)
(* not, and passes when both sizes are at most the limit.                  *)
C7_SizeLimit ==
    last.op = "validate_mesh" =>
        /\ ~WithinLimit(vertices) \/ ~WithinLimit(segments) => last.err # NoError
        /\ last.err.kind = "PayloadTooLarge" =>
               /\ last.err.name \in MeshKeys
               /\ nbytes(ArrayNamed(last.err.name)) > FileSizeLimit
        /\ last.err.kind \notin ConnectivityKinds =>
               /\ nbytes(segments) > FileSizeLimit =>
                      last.err = MeshError("PayloadTooLarge", "segments")
               /\ nbytes(segments) <= FileSizeLimit /\ nbytes(vertices) > FileSizeLimit =>
                      last.err = MeshError("PayloadTooLarge", "vertices")
               /\ nbytes(segments) <= FileSizeLimit /\ nbytes(vertices) <= FileSizeLimit =>
                      last.err = NoError

C7_Witness ==
    /\ last.op = "validate_mesh"
    /\ last.err = MeshError("PayloadTooLarge", "segments")
    /\ nbytes(vertices) = FileSizeLimit

(* C8: a failing validation changes no field value and no dirty flag, and  *)
(* once a validation has failed, a validation of the resource corrected to *)
(* satisfy its invariants succeeds.                                        *)
Validations == {"validate_mesh", "validate_line", "upload"}

Corrected == last.failed /\ last.op \in Mutations

C8_Step ==
    /\ last'.op \in Validations /\ last'.err # NoError =>
           UNCHANGED <<vertices, segments, dirty_props, synced, data, pc>>
    /\ Corrected /\ last'.op = "validate_mesh" /\ MeshConforms' => last'.err = NoError
    /\ Corrected /\ last'.op \in {"validate_line", "upload"} /\ LineConforms' =>
           last'.err = NoError

C8_FailureChangesNothing == [][C8_Step]_vars

(* C9: dirty_file_set returns no encoded array of a mesh whose segments    *)
(* have an index outside 0..nN-1 or whose arrays are over the size limit.  *)
C9_FilesOnlyOfValidMesh ==
    last.op = "get_dirty_files" /\ DOMAIN last.files # {} => MeshConforms


(* C11: a call of dirty_file_set changes no field value and no dirty flag, *)
(* and a call with force that follows a call with force returns the same   *)
(* keys with the same bytes.                                               *)
C11_Step ==
    last'.op = "get_dirty_files" =>
        /\ UNCHANGED <<vertices, segments, dirty_props, synced, data, pc>>
        /\ last.op = "get_dirty_files" /\ last.force /\ last'.force =>
               /\ last'.again
               /\ DOMAIN last'.files = DOMAIN last.files
               /\ \A k \in DOMAIN last.files : last'.files[k] = last.files[k]

C11_PureRead == [][C11_Step]_vars

C11_Witness ==
    /\ last.op = "get_dirty_files"
    /\ last.force /\ last.again
    /\ DOMAIN last.files = MeshKeys
    /\ last.files["vertices"] # << >>

(* C13: assigning an array a value equal in content to the synced one      *)
(* leaves a clean field clean, so that dirty_file_set() stays empty; a     *)
(* value that differs marks the field dirty.                               *)
C13_Step ==
    /\ last'.op = "set_vertices" =>
           ("vertices" \in dirty_props' <=>
                "vertices" \in dirty_props \/ <<vertices'>> # synced.vertices)
    /\ last'.op = "set_segments" =>
           ("segments" \in dirty_props' <=>
                "segments" \in dirty_props \/ <<segments'>> # synced.segments)
    /\ /\ DirtyKeys = {}
       /\ \/ last'.op = "set_vertices" /\ <<vertices'>> = synced.vertices
          \/ last'.op = "set_segments" /\ <<segments'>> = synced.segments
       => DirtyKeys' = {}

C13_EqualContentStaysClean == [][C13_Step]_vars

C13_Witness ==
    /\ last.op = "set_vertices"
    /\ synced.vertices = <<vertices>>
    /\ DirtyKeys = {}


(* C14: the size of a line resource is 12 bytes for each vertex, 8 bytes   *)
(* for each segment and the encoded size of every bound data array; with   *)
(* no bound data it is the size of the mesh alone.                         *)
BoundDataSizes == [i \in DOMAIN data |-> data_nbytes(data[i].array)]

SizesUpTo(n) ==
    LET part[i \in 0..n] == IF i = 0 THEN 0 ELSE part[i - 1] + BoundDataSizes[i]
    IN  part[n]

C14_Nbytes ==
    last.op = "nbytes" =>
        /\ last.size = 12 * Len(vertices) + 8 * Len(segments) + SizesUpTo(Len(data))
        /\ data = << >> => last.size = nbytes(segments) + nbytes(vertices)

C14_Witness ==
    /\ last.op = "nbytes"
    /\ Len(data) = 2
    /\ data[1].array # << >> /\ data[2].array # << >>
    /\ Len(vertices) = 2 /\ Len(segments) = 3
    /\ last.size > 12 * Len(vertices) + 8 * Len(segments)


(* C12: an assignment of a value that is not of the declared shape and     *)
(* kind (vertices that are not rows of 3 floats, segments that are not     *)
(* rows of 2 integers, a location that is no tag and no alias) is rejected *)
(* and leaves every value and every dirty flag as they were; the values a  *)
(* validation or dirty_file_set reads are always of the declared shape.    *)
RowsOfWidth(arr, w) == \A k \in DOMAIN arr : Len(arr[k]) = w

Declared ==
    /\ RowsOfWidth(vertices, 3)
    /\ RowsOfWidth(segments, 2)
    /\ \A i \in DOMAIN data : data[i].location \in {"CC", "N"}

Undeclared ==
    \/ last.op = "set_vertices" /\ (last.arg.dtype # "float" \/ ~RowsOfWidth(last.arg.rows, 3))
    \/ last.op = "set_segments" /\ (last.arg.dtype # "int" \/ ~RowsOfWidth(last.arg.rows, 2))
    \/ /\ last.op = "set_location"
       /\ last.arg.tag \notin {"CC", "LINE", "FACE", "CELLCENTER", "EDGE", "SEGMENT",
                               "N", "VERTEX", "NODE", "ENDPOINT"}

C12_Step ==
    /\ Declared'
    /\ last'.op = "get_dirty_files" =>
           \A k \in DOMAIN last'.files :
               Len(last'.files[k]) % (IF k = "vertices" THEN 3 ELSE 2) = 0
    /\ Undeclared' =>
           /\ last'.err.kind \in {"ShapeMismatch", "KindMismatch"}
           /\ UNCHANGED <<vertices, segments, dirty_props, synced, data>>

C12_RejectedAtAssignment == [][C12_Step]_vars

C12_Witness ==
    /\ last.op = "set_vertices"
    /\ last.arg.dtype = "float"
    /\ ~RowsOfWidth(last.arg.rows, 3)
    /\ last.err.kind = "ShapeMismatch"
    /\ vertices # last.arg.rows


(* C15: a build from downloaded arrays whose segments hold a negative      *)
(* index or an index past the last vertex, or one of whose arrays is over  *)
(* the size limit, fails with the error kind validation gives the same     *)
(* arrays, and returns no mesh.                                            *)
C15_BuildValidates ==
    last.op = "build_from_json" =>
        LET e == validate_seg(last.arg.vertices, last.arg.segments)
        IN  e.kind \in {"NegativeIndex", "IndexOutOfRange", "PayloadTooLarge"} =>
                last.err.kind = e.kind /\ pc = "raised"

(* C16: the vertices of a mesh imported from OMF are the foreign vertices  *)
(* plus the origin of the geometry plus the origin of the project, one     *)
(* component at a time, and its segments the foreign segments in order.    *)
C16_OmfImport ==
    last.op = "build_from_omf" /\ last.err = NoError =>
        /\ Len(vertices) = Len(last.arg.vertices)
        /\ \A k \in DOMAIN vertices : \A j \in 1..3 :
               vertices[k][j] =
                   last.arg.vertices[k][j] + last.arg.origin[j] + last.arg.project_origin[j]
        /\ segments = last.arg.segments

C16_Witness ==
    /\ last.op = "build_from_omf"
    /\ last.err = NoError
    /\ Len(vertices) = 3
    /\ last.arg.origin = <<1, 2, 3>>
    /\ last.arg.project_origin = <<-2, 0, 5>>
    /\ vertices[3] = <<2 + 1 - 2, 0 + 2 + 0, 0 + 3 + 5>>
    /\ Len(segments) = 2


(* C17: post, put and upload send a request only when a user is logged in, *)
(* and with that user's key; with nobody logged in they send none, return  *)
(* nothing and touch no file, whatever files they were given.              *)
Gates == {"post", "put", "upload"}

C17_LoginGate ==
    call.op \in Gates =>
        /\ ~user.logged_in =>
               /\ call.requests = << >>
               /\ ~call.returned /\ ~call.raised /\ ~call.closed
        /\ call.requests # << >> => user.logged_in
        /\ \A i \in DOMAIN call.requests : call.requests[i].key = user.devel_key
        /\ call.returned => Len(call.requests) = 1

C17_Witness ==
    /\ call.op = "upload"
    /\ call.files = "stream"
    /\ ~user.logged_in
    /\ call.requests = << >>
    /\ ~call.returned

(* C18: a login while a user is logged in changes neither the user, nor    *)
(* their key, nor the base URL, nor the credentials file, and sends no     *)
(* request, whatever its arguments; the user changes only by a logout.     *)
C18_Step ==
    /\ user.logged_in /\ call'.op = "login" =>
           /\ UNCHANGED <<user, base_url, credentials>>
           /\ call'.requests = << >>
    /\ user.logged_in /\ user'.logged_in => user' = user

C18_LoginWhenLoggedIn == [][C18_Step]_vars

C18_Witness ==
    /\ call.op = "login"
    /\ user.logged_in
    /\ call.requests = << >>
    /\ call.endpoint # NoUrl
    /\ call.before = base_url
    /\ base_url # call.endpoint

(* C19: the user becomes logged in only by a login whose key is a          *)
(* username, '//' and 36 characters and whose GET of 'me' answered 200; a  *)
(* login that ends with a key of another format, a connection error or     *)
(* another status leaves nobody logged in and no key on the user.          *)
ValidFormat(key) == Len(key) = 2 /\ key[2].len = 36

C19_Step ==
    /\ ~user.logged_in /\ user'.logged_in =>
           /\ call'.op = "login"
           /\ ValidFormat(call'.key)
           /\ call'.status = "200"
           /\ user'.devel_key = call'.key
    /\ /\ ~user.logged_in
       /\ call'.op = "login"
       /\ call'.raised \/ ~ValidFormat(call'.key) \/ call'.status # "200"
       => ~user'.logged_in /\ user'.devel_key = None

C19_LoggedInOnlyByValidLogin == [][C19_Step]_vars

C19_Witness ==
    /\ call.op = "login"
    /\ ValidFormat(call.key)
    /\ call.status = "401"
    /\ Len(call.requests) = 2
    /\ ~user.logged_in
    /\ user.devel_key = None

(* C20: a logout leaves nobody logged in and the base URL the production   *)
(* URL, whatever the state before; a login without an endpoint that finds  *)
(* nobody logged in and the base URL so sends its requests to production.  *)
C20_Step ==
    /\ call'.op = "logout" => ~user'.logged_in /\ base_url' = PRODUCTION_BASE_URL
    /\ /\ call'.op = "login"
       /\ call'.endpoint = NoUrl
       /\ ~user.logged_in
       /\ call.op = "logout" \/ base_url = PRODUCTION_BASE_URL
       => /\ \A i \in DOMAIN call'.requests :
                 call'.requests[i].base = PRODUCTION_BASE_URL
          /\ call'.requests # << >>
          /\ base_url' = PRODUCTION_BASE_URL

C20_LogoutResets == [][C20_Step]_vars

C20_Witness ==
    /\ call.op = "logout"
    /\ call.before # PRODUCTION_BASE_URL
    /\ base_url = PRODUCTION_BASE_URL
    /\ ~user.logged_in


(* C21: the credentials file is written only by a login that succeeds with *)
(* skip_credentials false; it then holds the key of the user first, then,  *)
(* in their order, the valid keys it held that are neither that key nor of *)
(* the username of the user; when the account the server answered is the   *)
(* one named in the key, this username is on one line only; a login that   *)
(* fails leaves the file as it was.                                        *)
LoginSucceeds == ~user.logged_in /\ call'.op = "login" /\ user'.logged_in

LoginFails == ~user.logged_in /\ call'.op = "login" /\ ~user'.logged_in

ValidStored == IF credentials.isfile THEN SelectSeq(credentials.lines, ValidFormat) ELSE << >>

OfUsername(key, username) == <<key[1]>> = username

C21_Written ==
    LET Kept(key) == key # user'.devel_key /\ ~OfUsername(key, user'.username)
    IN  /\ credentials'.isfile
        /\ credentials'.lines # << >>
        /\ Head(credentials'.lines) = user'.devel_key
        /\ Tail(credentials'.lines) = SelectSeq(ValidStored, Kept)

C21_UsernameOnce ==
    Cardinality({i \in DOMAIN credentials'.lines :
                    OfUsername(credentials'.lines[i], user'.username)}) = 1

C21_Frame ==
    /\ credentials' # credentials => LoginSucceeds /\ ~call'.skip_credentials
    /\ LoginFails => credentials' = credentials

C21_Step ==
    /\ C21_Frame
    /\ LoginSucceeds /\ ~call'.skip_credentials =>
           /\ C21_Written
           /\ OfUsername(user'.devel_key, user'.username) => C21_UsernameOnce

C21_StepAsStated ==
    /\ C21_Frame
    /\ LoginSucceeds /\ ~call'.skip_credentials => C21_Written /\ C21_UsernameOnce

DotCom(hostname) ==
    \E i \in DOMAIN hostname :
        /\ i + 3 <= Len(hostname)
        /\ hostname[i] = "." /\ hostname[i + 1] = "c"
        /\ hostname[i + 2] = "o" /\ hostname[i + 3] = "m"

Insecure(url) == url # NoUrl /\ DotCom(url.hostname) /\ url.scheme # "https"

C22_BaseUrl ==
    /\ base_url.slash
    /\ DotCom(base_url.hostname) => base_url.scheme = "https"
    /\ /\ \/ call.op = "set_base_url"
          \/ call.op = "login" /\ ~user.logged_in
       /\ Insecure(call.endpoint)
       => call.raised /\ base_url = call.before

C22_Witness ==
    /\ call.op = "login"
    /\ Insecure(call.endpoint)
    /\ call.raised
    /\ base_url = call.before
    /\ base_url = Url("https", DevSteno3dCom, TRUE)

====
